---- MODULE Spec2Model ----
(***************************************************************************)
(* A model of the augmentation transforms of augmentations.py.             *)
(*                                                                         *)
(* Every transform consumes and returns the triple (image, boxes, labels). *)
(* Real numbers (random.uniform draws, coordinates, pixel values) are      *)
(* exact rationals <<n, d>> with d > 0 in lowest terms; Python's int() is   *)
(* truncation toward zero.  An image is [h, w, px] with px a sequence of    *)
(* h rows of w pixels.  A numpy exception leaves status = "raised": the     *)
(* call returns nothing.                                                    *)
(***************************************************************************)
EXTENDS Integers, Sequences, FiniteSets, TLC

VARIABLES
    image,      \* returned image
    boxes,      \* returned geometry: a sequence of rows of rationals
    labels,     \* returned labels: a sequence of class ids
    argBoxes,   \* contents of the caller's geometry array after the call
    pre,        \* the triple as it was when the last transform was called
    last,       \* the last transform called and its random draws
    status,     \* "ok" or "raised"
    gid,        \* ghost: input row each geometry row stems from
    lid,        \* ghost: input row each label row stems from
    orig,       \* the triple the chain was called with
    chain,      \* Compose: the transforms still to be called
    pc,         \* position inside a multi-step transform
    mode,       \* the croppers: the chosen sample option
    trials,     \* the croppers: trials made for the chosen mode
    todo,       \* PhotometricDistort: the steps of its inner chain still to run
    log         \* the transforms that have returned, in order

vars == <<image, boxes, labels, argBoxes, pre, last, status, gid, lid,
          orig, chain, pc, mode, trials, todo, log>>

(* Exact rational arithmetic                                               *)

Abs(n) == IF n < 0 THEN -n ELSE n

RECURSIVE GCD(_, _)
GCD(a, b) == IF b = 0 THEN a ELSE GCD(b, a % b)

Norm(n, d) ==
    LET s == IF d < 0 THEN -1 ELSE 1
        g == GCD(Abs(n), Abs(d))
    IN  <<(s * n) \div g, (s * d) \div g>>

I(n) == <<n, 1>>
RAdd(p, q) == Norm(p[1] * q[2] + q[1] * p[2], p[2] * q[2])
RSub(p, q) == Norm(p[1] * q[2] - q[1] * p[2], p[2] * q[2])
RMul(p, q) == Norm(p[1] * q[1], p[2] * q[2])
RDiv(p, q) == Norm(p[1] * q[2], p[2] * q[1])
RLt(p, q) == p[1] * q[2] < q[1] * p[2]
RLe(p, q) == p[1] * q[2] <= q[1] * p[2]
RMin(p, q) == IF RLt(q, p) THEN q ELSE p
RMax(p, q) == IF RLt(p, q) THEN q ELSE p
\* Python int(): truncation toward zero
RInt(p) == IF p[1] >= 0 THEN p[1] \div p[2] ELSE -((-p[1]) \div p[2])

FromInts(row) == [j \in 1..Len(row) |-> I(row[j])]

\* numpy random.uniform(low, high): low + (high - low) * U with U in [0, 1)
InUniform(x, low, high) ==
    IF low = high THEN x = low
    ELSE IF RLt(low, high) THEN RLe(low, x) /\ RLt(x, high)
    ELSE RLt(high, x) /\ RLe(x, low)


(* Arrays                                                                  *)

Min(a, b) == IF a < b THEN a ELSE b
Max(a, b) == IF a < b THEN b ELSE a

\* Python slice seq[a:b] for 0 <= a, 0 <= b (bounds clamp to the length)
Slice(seq, a, b) == SubSeq(seq, Min(a, Len(seq)) + 1, Min(b, Len(seq)))

\* boolean-mask indexing arr[mask]
RECURSIVE MaskSelect(_, _)
MaskSelect(arr, mask) ==
    IF arr = << >> THEN << >>
    ELSE IF Head(mask) THEN <<Head(arr)>> \o MaskSelect(Tail(arr), Tail(mask))
    ELSE MaskSelect(Tail(arr), Tail(mask))

\* Python list repetition: pair * n
RECURSIVE Tile(_, _)
Tile(pair, n) == IF n <= 0 THEN << >> ELSE pair \o Tile(pair, n - 1)

\* An image is kept as index maps into the raster it was loaded from:
\* pixel (r, c) shows source pixel (rows[r], cols[c]); a negative entry -k
\* marks a pixel painted with the fill colour pal[k], 0 an interpolated one.  pal holds the colours,
\* three channels each: source pixel (r, c) has colour pal[SourceColour(r, c)].
\* space names what the channels hold, B G R or H S V.
SourceColour(r, c) == ((r + c) % 2) + 1

MkImage(h, w, pal) ==
    [rows |-> [r \in 1..h |-> r], cols |-> [c \in 1..w |-> c], pal |-> pal,
     space |-> "BGR"]

\* image.shape
Height(img) == Len(img.rows)
Width(img) == Len(img.cols)

\* which source pixel (or fill -k) is shown at row r, column c
PixelAt(img, r, c) ==
    IF img.rows[r] < 0 \/ img.cols[c] < 0
    THEN Min(Min(img.rows[r], img.cols[c]), 0)
    ELSE 1000 * img.rows[r] + img.cols[c]

\* the colour shown at row r, column c
ColourAt(img, r, c) ==
    IF img.rows[r] < 0 \/ img.cols[c] < 0
    THEN img.pal[-Min(img.rows[r], img.cols[c])]
    ELSE img.pal[SourceColour(img.rows[r], img.cols[c])]

\* image[y1:y2, x1:x2, :]
CropImage(img, rect) ==
    [img EXCEPT !.rows = Slice(img.rows, rect[2], rect[4]),
                !.cols = Slice(img.cols, rect[1], rect[3])]

\* boxes.shape[1]: 0 columns cannot be told for an empty list of rows, whose
\* numpy shape the inputs fix as (0, 8)
NumCols(bx) == IF bx = << >> THEN 8 ELSE Len(bx[1])

(* Overlap measures                                                        *)

\* intersect(box_a, box_b) for one row of box_a
intersect(a, b) ==
    LET mx == RSub(RMin(a[3], b[3]), RMax(a[1], b[1]))
        my == RSub(RMin(a[4], b[4]), RMax(a[2], b[2]))
        cx == RMax(mx, I(0))
        cy == RMax(my, I(0))
    IN  RMul(cx, cy)

area(a) == RMul(RSub(a[3], a[1]), RSub(a[4], a[2]))

\* jaccard_numpy for one row: inter / union as a fraction [num, den]
jaccard_numpy(a, b) ==
    LET inter == intersect(a, b)
    IN  [num |-> inter, den |-> RSub(RAdd(area(a), area(b)), inter)]

\* modified_jaccard_numpy for one row: inter / area_a as a fraction
modified_jaccard_numpy(a, b) ==
    LET inter == intersect(a, b)
    IN  [num |-> inter, den |-> area(a)]

\* IEEE comparison  num / den > t  (0/0 is nan: every comparison is False;
\* x/0 with x > 0 is inf)
FracGt(f, t) ==
    IF f.den = I(0) THEN RLt(I(0), f.num)
    ELSE IF RLt(I(0), f.den) THEN RLt(RMul(t, f.den), f.num)
    ELSE RLt(f.num, RMul(t, f.den))

FracLt(f, t) ==
    IF f.den = I(0) THEN RLt(f.num, I(0))
    ELSE IF RLt(I(0), f.den) THEN RLt(f.num, RMul(t, f.den))
    ELSE RLt(RMul(t, f.den), f.num)

(* Bookkeeping shared by the transforms                                    *)

Triple == [image |-> image, boxes |-> boxes, labels |-> labels]

NoRect == <<0, 0, 0, 0>>

Call(op, applied, draws, rect) ==
    [op |-> op, applied |-> applied, draws |-> draws, rect |-> rect]

\* a transform of a chain: its class and its constructor argument
Transform(op, arg) == [op |-> op, arg |-> arg]

\* Compose.__call__: "for t in self.transforms: img, boxes, labels = t(...)"
\* calls the next transform, op, with the triple the last one returned
Enter(op) ==
    /\ pc = "idle" /\ status = "ok"
    /\ chain # << >> /\ Head(chain).op = op
    /\ chain' = Tail(chain)
    /\ pre' = Triple

Logged(op, applied) == log' = Append(log, [op |-> op, applied |-> applied])

\* a transform returns (img, bx, lb) with rows bx stemming from g and lb from l
Return(img, bx, lb, g, l) ==
    /\ image' = img /\ boxes' = bx /\ labels' = lb
    /\ gid' = g /\ lid' = l
    /\ status' = "ok"

\* a transform raises: nothing is returned
Raise ==
    /\ status' = "raised"
    /\ UNCHANGED <<image, boxes, labels, gid, lid>>

(* RandomSampleCropPoly                                                    *)

NoneMode == [isNone |-> TRUE, hasMin |-> FALSE, min |-> 0,
             hasMax |-> FALSE, max |-> 0]
Policy(lo) == [isNone |-> FALSE, hasMin |-> TRUE, min |-> lo,
               hasMax |-> FALSE, max |-> 0]

sample_options ==
    <<NoneMode, Policy(1), Policy(3), Policy(5), Policy(7), Policy(9)>>

MaxTrials == 50

\* the least crop size, as a share of the image, of the two croppers
PolyScale == <<1, 10>>
BoxScale == <<3, 10>>

\* values random.uniform may return in the crop sampler
CropDraws == {I(5), <<11, 2>>, I(20), I(40), <<81, 2>>}

SeqMin(s) == CHOOSE x \in {s[i] : i \in 1..Len(s)} :
                 \A j \in 1..Len(s) : RLe(x, s[j])
SeqMax(s) == CHOOSE x \in {s[i] : i \in 1..Len(s)} :
                 \A j \in 1..Len(s) : RLe(s[j], x)

\* row[::2] and row[1::2]
Evens(row) == [k \in 1..((Len(row) + 1) \div 2) |-> row[2 * k - 1]]
Odds(row) == [k \in 1..(Len(row) \div 2) |-> row[2 * k]]

\* boxes_rect: the bounding rectangle of every object
BoxesRect(bx) ==
    [i \in 1..Len(bx) |->
        <<SeqMin(Evens(bx[i])), SeqMin(Odds(bx[i])),
          SeqMax(Evens(bx[i])), SeqMax(Odds(bx[i]))>>]

\* (overlap > 0.9).sum()
OverlapCount(boxes_rect, rect) ==
    LET r == FromInts(rect)
    IN  Cardinality({i \in 1..Len(boxes_rect) :
            FracGt(modified_jaccard_numpy(boxes_rect[i], r), <<9, 10>>)})

\* "if mode is None or len(boxes_rect) == 0: return image, boxes, labels"
AltShortCircuit(m, boxes_rect) == m.isNone

ShortCircuit(m, boxes_rect) == m.isNone \/ Len(boxes_rect) = 0

\* the trial's test "count <= min_boxes or count >= max_boxes": try again
AltPolicyRejects(m, count) ==
    \/ (m.hasMin /\ count >= m.min)
    \/ (m.hasMax /\ count >= m.max)

PolicyRejects(m, count) ==
    \/ (m.hasMin /\ count <= m.min)
    \/ (m.hasMax /\ count >= m.max)

\* current_boxes[:, :2*num_pt] -= rect[:2].tolist() * num_pt
AltTranslateRow(row, dx, dy) ==
    LET num_pt == Len(row) \div 2
        t == Tile(<<dx, dy>>, num_pt)
    IN  [j \in 1..Len(row) |->
            IF j <= num_pt THEN RAdd(row[j], I(t[j])) ELSE row[j]]

TranslateRow(row, dx, dy) ==
    LET num_pt == Len(row) \div 2
        t == Tile(<<dx, dy>>, num_pt)
    IN  [j \in 1..Len(row) |->
            IF j <= 2 * num_pt THEN RAdd(row[j], I(t[j])) ELSE row[j]]

\* the shift, with the objects outside the crop dropped
AltCropTranslateDrop(bx, rect) ==
    LET kept == MaskSelect(bx,
                    [i \in 1..Len(bx) |->
                        \E j \in 1..Len(bx[i]) :
                            /\ j % 2 = 1
                            /\ RLe(I(rect[1]), bx[i][j])
                            /\ RLe(bx[i][j], I(rect[3]))])
    IN  [i \in 1..Len(kept) |-> TranslateRow(kept[i], -rect[1], -rect[2])]

\* the classical cropper's clipping of the corners to the crop, then the shift
AltCropTranslate(bx, rect) ==
    [i \in 1..Len(bx) |->
        TranslateRow([j \in 1..Len(bx[i]) |->
                         RMin(RMax(bx[i][j], I(rect[2 - (j % 2)])),
                              I(rect[4 - (j % 2)]))],
                     -rect[1], -rect[2])]

CropTranslate(bx, rect) ==
    [i \in 1..Len(bx) |-> TranslateRow(bx[i], -rect[1], -rect[2])]

\* top of the while loop: choose a mode; None or no objects returns the input
CropChoose ==
    /\ status = "ok"
    /\ \/ Enter("RandomSampleCropPoly") /\ argBoxes' = boxes
       \/ pc = "choose" /\ UNCHANGED <<chain, pre, argBoxes>>
    /\ \E k \in 1..Len(sample_options) :
         LET m == sample_options[k] IN
         /\ mode' = m
         /\ trials' = 0
         /\ IF ShortCircuit(m, BoxesRect(boxes))
            THEN /\ pc' = "idle"
                 /\ last' = Call("RandomSampleCropPoly", FALSE, << >>, NoRect)
                 /\ Logged("RandomSampleCropPoly", FALSE)
                 /\ Return(image, boxes, labels, gid, lid)
            ELSE /\ pc' = "trial"
                 /\ last' = Call("RandomSampleCropPoly", FALSE, << >>, NoRect)
                 /\ UNCHANGED <<image, boxes, labels, gid, lid, status, log>>
    /\ UNCHANGED <<orig, todo>>

\* the sizes (w, h) a trial may draw: uniform(lo * width, width) and
\* uniform(lo * height, height)
CropSizes(height, width, lo) ==
    {d \in CropDraws \X CropDraws :
        /\ InUniform(d[1], RMul(lo, I(width)), I(width))
        /\ InUniform(d[2], RMul(lo, I(height)), I(height))}

\* aspect ratio constraint: "if h / w < 0.5 or h / w > 2: continue"
BadAspect(d) ==
    LET aspect == RDiv(d[2], d[1])
    IN  RLt(aspect, <<1, 2>>) \/ RLt(I(2), aspect)

\* left = uniform(width - w) and top = uniform(height - h): the upper end of
\* both is numpy's default 1.0
CropOffsets(extent, size) ==
    {o \in CropDraws : InUniform(o, RSub(I(extent), size), I(1))}

\* the integer rectangles x1, y1, x2, y2 a trial may reach
CropRects(height, width, lo) ==
    UNION { { <<RInt(left), RInt(top),
                RInt(RAdd(left, d[1])), RInt(RAdd(top, d[2]))>> :
                <<left, top>> \in CropOffsets(width, d[1])
                                  \X CropOffsets(height, d[2]) } :
            d \in {e \in CropSizes(height, width, lo) : ~BadAspect(e)} }

\* the test that sends a trial back to the top of the for loop
CropRejects(m, boxes_rect, rect) ==
    PolicyRejects(m, OverlapCount(boxes_rect, rect))

\* a trial failed: the next pass, or after MaxTrials passes the while loop
AltTrialFailed ==
    /\ trials' = (trials + 1) % MaxTrials
    /\ pc' = "trial"
    /\ UNCHANGED <<image, boxes, labels, gid, lid, status, last, log>>

TrialFailed ==
    /\ trials' = trials + 1
    /\ pc' = IF trials + 1 = MaxTrials THEN "choose" ELSE "trial"
    /\ UNCHANGED <<image, boxes, labels, gid, lid, status, last, log>>

\* one pass of "for _ in range(50)"
CropTrial ==
    /\ pc = "trial" /\ status = "ok"
    /\ \/ /\ \E d \in CropSizes(Height(image), Width(image), PolyScale) :
                BadAspect(d)
          /\ TrialFailed
       \/ LET boxes_rect == BoxesRect(boxes) IN
          \E rect \in CropRects(Height(image), Width(image), PolyScale) :
            IF CropRejects(mode, boxes_rect, rect)
            THEN TrialFailed
            ELSE /\ trials' = trials + 1
                 /\ pc' = "idle"
                 /\ last' = Call("RandomSampleCropPoly", TRUE, << >>, rect)
                 /\ Logged("RandomSampleCropPoly", TRUE)
                 /\ Return(CropImage(image, rect), CropTranslate(boxes, rect),
                           labels, gid, lid)
    /\ UNCHANGED <<argBoxes, pre, orig, chain, mode, todo>>

(* Photometric transforms: they act on every pixel alike                  *)

MapPal(img, f(_)) == [img EXCEPT !.pal = [k \in DOMAIN img.pal |-> f(img.pal[k])]]

\* "image[image > 255] = 255" then "image[image < 0] = 0"
Clip255(v) ==
    LET hi == IF RLt(I(255), v) THEN I(255) ELSE v
    IN  IF RLt(hi, I(0)) THEN I(0) ELSE hi

BrightnessDelta == 16
HueDelta == 36
ContrastLower == <<1, 2>>
ContrastUpper == <<3, 2>>

\* values random.uniform may return in the photometric transforms
PhotoDraws == {I(-36), I(-16), <<-1, 2>>, I(0), <<1, 2>>, I(10), <<5, 4>>}

\* RandomBrightness.__call__ with its coin and its delta
RandomBrightness(img, coin, delta) ==
    IF coin = 1
    THEN MapPal(img, LAMBDA px : [c \in 1..3 |-> Clip255(RAdd(px[c], delta))])
    ELSE img

\* RandomContrast.__call__ with its coin and its alpha
RandomContrast(img, coin, alpha) ==
    IF coin = 1
    THEN MapPal(img, LAMBDA px : [c \in 1..3 |-> Clip255(RMul(px[c], alpha))])
    ELSE img

\* the hue channel after "+= delta", "[> 360.0] -= 360.0", "[< 0.0] += 360.0"
AltWrapHue(h, delta) ==
    LET a == RAdd(h, delta)
    IN  IF RLt(I(360), a) THEN RSub(a, I(360)) ELSE a

WrapHue(h, delta) ==
    LET a == RAdd(h, delta)
        b == IF RLt(I(360), a) THEN RSub(a, I(360)) ELSE a
    IN  IF RLt(b, I(0)) THEN RAdd(b, I(360)) ELSE b

\* RandomHue.__call__ with its coin and its delta
RandomHue(img, coin, delta) ==
    IF coin = 1
    THEN MapPal(img, LAMBDA px : <<WrapHue(px[1], delta), px[2], px[3]>>)
    ELSE img

RFloor(p) == p[1] \div p[2]

\* cv2.COLOR_BGR2HSV of one float pixel (B, G, R) -> (H, S, V), H in degrees
BGR2HSV(px) ==
    LET b == px[1]
        g == px[2]
        r == px[3]
        v == RMax(RMax(b, g), r)
        mn == RMin(RMin(b, g), r)
        diff == RSub(v, mn)
        sat == IF v = I(0) THEN I(0) ELSE RDiv(diff, v)
        raw == IF diff = I(0) THEN I(0)
               ELSE IF v = r THEN RMul(I(60), RDiv(RSub(g, b), diff))
               ELSE IF v = g
                    THEN RAdd(I(120), RMul(I(60), RDiv(RSub(b, r), diff)))
               ELSE RAdd(I(240), RMul(I(60), RDiv(RSub(r, g), diff)))
        hue == IF RLt(raw, I(0)) THEN RAdd(raw, I(360)) ELSE raw
    IN  <<hue, sat, v>>

\* cv2.COLOR_HSV2BGR of one float pixel (H, S, V) -> (B, G, R)
HSV2BGR(px) ==
    LET hh == RDiv(px[1], I(60))
        sat == px[2]
        v == px[3]
        sector == RFloor(hh) % 6
        f == RSub(hh, I(RFloor(hh)))
        p == RMul(v, RSub(I(1), sat))
        q == RMul(v, RSub(I(1), RMul(sat, f)))
        t == RMul(v, RSub(I(1), RMul(sat, RSub(I(1), f))))
    IN  IF sat = I(0) THEN <<v, v, v>>
        ELSE IF sector = 0 THEN <<p, t, v>>
        ELSE IF sector = 1 THEN <<p, v, q>>
        ELSE IF sector = 2 THEN <<t, v, p>>
        ELSE IF sector = 3 THEN <<v, q, p>>
        ELSE IF sector = 4 THEN <<v, p, t>>
        ELSE <<q, p, v>>

\* ConvertColor.__call__ for the two conversions it implements
ConvertColor(img, current, transform) ==
    IF current = "BGR" /\ transform = "HSV"
    THEN [MapPal(img, BGR2HSV) EXCEPT !.space = "HSV"]
    ELSE [MapPal(img, HSV2BGR) EXCEPT !.space = "BGR"]

\* np.clip(im, 0., 255.)
ClipImage(img) == MapPal(img, LAMBDA px : [c \in 1..3 |-> Clip255(px[c])])

Coins == {0, 1}

\* a transform that leaves the geometry alone returns
PassThrough(op, applied, img) ==
    /\ last' = Call(op, applied, << >>, NoRect)
    /\ Logged(op, applied)
    /\ argBoxes' = boxes
    /\ Return(img, boxes, labels, gid, lid)
    /\ UNCHANGED <<orig, pc, mode, trials, todo>>

RandomBrightnessCall ==
    /\ Enter("RandomBrightness")
    /\ \E coin \in Coins, delta \in PhotoDraws :
         /\ InUniform(delta, I(-BrightnessDelta), I(BrightnessDelta))
         /\ coin = 0 => delta = I(0)
         /\ PassThrough("RandomBrightness", coin = 1,
                        RandomBrightness(image, coin, delta))

RandomContrastCall ==
    /\ Enter("RandomContrast")
    /\ \E coin \in Coins, alpha \in PhotoDraws :
         /\ InUniform(alpha, ContrastLower, ContrastUpper)
         /\ coin = 0 => alpha = <<1, 2>>
         /\ PassThrough("RandomContrast", coin = 1,
                        RandomContrast(image, coin, alpha))

RandomHueCall ==
    /\ Enter("RandomHue")
    /\ \E coin \in Coins, delta \in PhotoDraws :
         /\ InUniform(delta, I(-HueDelta), I(HueDelta))
         /\ coin = 0 => delta = I(0)
         /\ PassThrough("RandomHue", coin = 1, RandomHue(image, coin, delta))

(* PhotometricDistort                                                      *)

\* self.pd
pd == <<"RandomContrast", "ConvertColor(BGR->HSV)", "RandomHue",
        "ConvertColor(HSV->BGR)", "RandomContrast">>

AltDistortChain(coin) == pd

\* "Compose(self.pd[:-1])" when the coin shows, else "Compose(self.pd[1:])"
DistortChain(coin) ==
    IF coin = 1 THEN SubSeq(pd, 1, Len(pd) - 1) ELSE SubSeq(pd, 2, Len(pd))

\* "im = image.copy()" and the brightness step
PDBrightness ==
    /\ Enter("PhotometricDistort")
    /\ \E coin \in Coins, delta \in PhotoDraws :
         /\ InUniform(delta, I(-BrightnessDelta), I(BrightnessDelta))
         /\ coin = 0 => delta = I(0)
         /\ image' = RandomBrightness(image, coin, delta)
         /\ Logged("RandomBrightness", coin = 1)
    /\ pc' = "pd_choose"
    /\ last' = Call("PhotometricDistort", FALSE, << >>, NoRect)
    /\ argBoxes' = boxes
    /\ UNCHANGED <<boxes, labels, status, gid, lid, orig, mode, trials, todo>>

\* the coin that picks the inner chain
PDChoose ==
    /\ pc = "pd_choose" /\ status = "ok"
    /\ \E coin \in Coins : todo' = DistortChain(coin)
    /\ pc' = "pd_distort"
    /\ UNCHANGED <<image, boxes, labels, argBoxes, pre, last, status, gid, lid,
                   orig, chain, mode, trials, log>>

\* one transform of the inner chain
PDStep ==
    /\ pc = "pd_distort" /\ status = "ok" /\ todo # << >>
    /\ LET t == Head(todo) IN
       \/ /\ t = "RandomContrast"
          /\ \E coin \in Coins, alpha \in PhotoDraws :
               /\ InUniform(alpha, ContrastLower, ContrastUpper)
               /\ coin = 0 => alpha = <<1, 2>>
               /\ image' = RandomContrast(image, coin, alpha)
               /\ Logged(t, coin = 1)
       \/ /\ t = "RandomHue"
          /\ \E coin \in Coins, delta \in PhotoDraws :
               /\ InUniform(delta, I(-HueDelta), I(HueDelta))
               /\ coin = 0 => delta = I(0)
               /\ image' = RandomHue(image, coin, delta)
               /\ Logged(t, coin = 1)
       \/ /\ t = "ConvertColor(BGR->HSV)"
          /\ image' = ConvertColor(image, "BGR", "HSV")
          /\ Logged(t, TRUE)
       \/ /\ t = "ConvertColor(HSV->BGR)"
          /\ image' = ConvertColor(image, "HSV", "BGR")
          /\ Logged(t, TRUE)
    /\ todo' = Tail(todo)
    /\ UNCHANGED <<boxes, labels, argBoxes, pre, last, status, gid, lid,
                   orig, chain, pc, mode, trials>>

\* "im = np.clip(im, 0., 255.)" and the return
PDReturn ==
    /\ pc = "pd_distort" /\ status = "ok" /\ todo = << >>
    /\ pc' = "idle"
    /\ last' = Call("PhotometricDistort", TRUE, << >>, NoRect)
    /\ Logged("PhotometricDistort", TRUE)
    /\ Return(ClipImage(image), boxes, labels, gid, lid)
    /\ UNCHANGED <<argBoxes, pre, orig, chain, mode, trials, todo>>

(* Resize                                                                  *)

\* cv2.resize to size x size: every pixel is interpolated (index 0)
ResizeImage(img, size) ==
    [img EXCEPT !.rows = [r \in 1..size |-> 0], !.cols = [c \in 1..size |-> 0]]

\* "new_wh = [size / w, size / h]" and "boxes * np.tile(new_wh, 4)"
ResizeBoxes(bx, size, h, w) ==
    LET tile == Tile(<<Norm(size, w), Norm(size, h)>>, 4)
    IN  [i \in 1..Len(bx) |-> [j \in 1..Len(tile) |-> RMul(bx[i][j], tile[j])]]

ResizeCall ==
    /\ Enter("Resize")
    /\ LET size == Head(chain).arg
           h == Height(image)
           w == Width(image)
       IN  \* size / 0 fails; rows of 4 columns do not broadcast against the
           \* 8 entries of the tile
           IF h = 0 \/ w = 0 \/ NumCols(boxes) # Len(Tile(<<0, 0>>, 4))
           THEN /\ Raise
                /\ last' = Call("Resize", FALSE, <<I(size)>>, NoRect)
                /\ UNCHANGED log
           ELSE /\ Return(ResizeImage(image, size),
                          ResizeBoxes(boxes, size, h, w), labels, gid, lid)
                /\ last' = Call("Resize", TRUE, <<I(size)>>, NoRect)
                /\ Logged("Resize", TRUE)
    /\ argBoxes' = boxes
    /\ UNCHANGED <<orig, pc, mode, trials, todo>>

(* Expand                                                                  *)

\* self.mean, the fill colour
Mean == FromInts(<<104, 117, 123>>)

ExpandUpper == <<5, 4>>

\* values random.uniform may return in Expand
ExpandDraws ==
    {I(0), <<1, 2>>, I(1), <<9, 8>>, <<6, 5>>, I(3), <<11, 2>>, <<39, 2>>}

\* the canvas filled with the mean and the image pasted at (top, left)
AltExpandImage(img, ch, cw, top, left) ==
    LET k == Len(img.pal) + 1
    IN  [img EXCEPT
           !.rows = [r \in 1..ch |->
                        IF left < r /\ r <= left + Height(img)
                        THEN img.rows[r - left] ELSE -k],
           !.cols = [c \in 1..cw |->
                        IF top < c /\ c <= top + Width(img)
                        THEN img.cols[c - top] ELSE -k],
           !.pal = Append(img.pal, Mean)]

ExpandImage(img, ch, cw, top, left) ==
    LET k == Len(img.pal) + 1
    IN  [img EXCEPT
           !.rows = [r \in 1..ch |->
                        IF top < r /\ r <= top + Height(img)
                        THEN img.rows[r - top] ELSE -k],
           !.cols = [c \in 1..cw |->
                        IF left < c /\ c <= left + Width(img)
                        THEN img.cols[c - left] ELSE -k],
           !.pal = Append(img.pal, Mean)]

\* the extent of the slice a:b of an axis of n entries
SliceLen(a, b, n) == Max(0, Min(b, n) - Min(a, n))

\* "boxes[:, :2*num_pt] += [int(left), int(top)] * num_pt", in place
ExpandBoxes(bx, left, top) ==
    [i \in 1..Len(bx) |-> TranslateRow(bx[i], left, top)]

ExpandCall ==
    /\ Enter("Expand")
    /\ \/ /\ last' = Call("Expand", FALSE, << >>, NoRect)
          /\ Logged("Expand", FALSE)
          /\ argBoxes' = boxes
          /\ Return(image, boxes, labels, gid, lid)
       \/ \E ratio, left, top \in ExpandDraws :
            LET height == Height(image)
                width == Width(image)
                ch == RInt(RMul(I(height), ratio))
                cw == RInt(RMul(I(width), ratio))
                t0 == RInt(top)
                t1 == RInt(RAdd(top, I(height)))
                l0 == RInt(left)
                l1 == RInt(RAdd(left, I(width)))
            IN  /\ InUniform(ratio, I(1), ExpandUpper)
                /\ InUniform(left, I(0),
                             RSub(RMul(I(width), ratio), I(width)))
                /\ InUniform(top, I(0),
                             RSub(RMul(I(height), ratio), I(height)))
                /\ last' = Call("Expand", TRUE, <<ratio, left, top>>, NoRect)
                /\ IF SliceLen(t0, t1, ch) = height
                      /\ SliceLen(l0, l1, cw) = width
                   THEN /\ Return(ExpandImage(image, ch, cw, t0, l0),
                                  ExpandBoxes(boxes, l0, t0), labels, gid, lid)
                        /\ argBoxes' = ExpandBoxes(boxes, l0, t0)
                        /\ Logged("Expand", TRUE)
                   ELSE /\ Raise
                        /\ argBoxes' = boxes
                        /\ UNCHANGED log
    /\ UNCHANGED <<orig, pc, mode, trials, todo>>

(* RandomMirror                                                            *)

\* "image[:, ::-1]"
Reverse(seq) == [i \in 1..Len(seq) |-> seq[Len(seq) + 1 - i]]

MirrorImage(img) == [img EXCEPT !.cols = Reverse(img.cols)]

\* "boxes[:, 0::2] = width - boxes[:, 2::-2]" on one row of four columns
AltMirrorRow(row, width) ==
    <<RSub(I(width), row[1]), row[2], RSub(I(width), row[3]), row[4]>>

MirrorRow(row, width) ==
    <<RSub(I(width), row[3]), row[2], RSub(I(width), row[1]), row[4]>>

MirrorBoxes(bx, width) == [i \in 1..Len(bx) |-> MirrorRow(bx[i], width)]

RandomMirrorCall ==
    /\ Enter("RandomMirror")
    /\ \E coin \in Coins :
         /\ last' = Call("RandomMirror", coin = 1, << >>, NoRect)
         /\ IF coin = 0
            THEN /\ Return(image, boxes, labels, gid, lid)
                 /\ Logged("RandomMirror", FALSE)
            ELSE IF (NumCols(boxes) + 1) \div 2 # 2
            THEN Raise /\ UNCHANGED log
            ELSE /\ Return(MirrorImage(image),
                           MirrorBoxes(boxes, Width(image)), labels, gid, lid)
                 /\ Logged("RandomMirror", TRUE)
    /\ argBoxes' = boxes
    /\ UNCHANGED <<orig, pc, mode, trials, todo>>

(* Rotate                                                                  *)

RotateProb == 3
RotateDeg == 90

\* the angles of random.randint(-deg, deg) whose rotation matrix is rational
RotateAngles == {-RotateDeg, 0}

\* cv2.getRotationMatrix2D(center, angle, 1) for center (cx, cy)
RotationMatrix(cx, cy, angle) ==
    LET alpha == IF angle = 0 THEN I(1) ELSE I(0)
        beta == IF angle = 0 THEN I(0) ELSE IF angle < 0 THEN I(-1) ELSE I(1)
        na == RSub(I(1), alpha)
    IN  << <<alpha, beta, RSub(RMul(na, cx), RMul(beta, cy))>>,
           <<RSub(I(0), beta), alpha, RAdd(RMul(beta, cx), RMul(na, cy))>> >>

\* M.dot([x, y, 1])
RotatePoint(M, x, y) ==
    << RAdd(RAdd(RMul(M[1][1], x), RMul(M[1][2], y)), M[1][3]),
       RAdd(RAdd(RMul(M[2][1], x), RMul(M[2][2], y)), M[2][3]) >>

\* the four points of one row, rotated in place
RotateRow(M, row) ==
    [j \in 1..Len(row) |->
        IF j > 8 THEN row[j]
        ELSE LET l == (j - 1) \div 2
                 pt == RotatePoint(M, row[2 * l + 1], row[2 * l + 2])
             IN  pt[j - 2 * l]]

\* cv2.warpAffine: the same size; the pixels are resampled unless M is the
\* identity
WarpImage(img, angle) ==
    IF angle = 0 THEN img
    ELSE [img EXCEPT !.rows = [r \in 1..Height(img) |-> 0],
                     !.cols = [c \in 1..Width(img) |-> 0]]

RotateCall ==
    /\ Enter("Rotate")
    /\ \E coin \in 0..(RotateProb - 1), angle \in RotateAngles :
         LET M == RotationMatrix(Norm(Width(image), 2),
                                 Norm(Height(image), 2), angle)
         IN
         /\ coin # 0 => angle = 0
         /\ last' = Call("Rotate", coin = 0, <<I(angle)>>, NoRect)
         /\ IF coin # 0
            THEN /\ Return(image, boxes, labels, gid, lid)
                 /\ argBoxes' = boxes
                 /\ Logged("Rotate", FALSE)
            ELSE IF Len(boxes) > 0 /\ NumCols(boxes) < 8
            THEN \* the third point of the first row is missing: M.dot fails
                 \* after the points before it were rotated in place
                 /\ Raise
                 /\ argBoxes' = [boxes EXCEPT ![1] =
                        [j \in 1..Len(boxes[1]) |->
                            IF j <= 2 * (Len(boxes[1]) \div 2)
                            THEN RotateRow(M, boxes[1])[j] ELSE boxes[1][j]]]
                 /\ UNCHANGED log
            ELSE /\ Return(WarpImage(image, angle),
                           [i \in 1..Len(boxes) |-> RotateRow(M, boxes[i])],
                           labels, gid, lid)
                 /\ argBoxes' = [i \in 1..Len(boxes) |-> RotateRow(M, boxes[i])]
                 /\ Logged("Rotate", TRUE)
    /\ UNCHANGED <<orig, pc, mode, trials, todo>>

(* RandomSampleCrop                                                        *)

box_sample_options ==
    <<NoneMode,
      [isNone |-> FALSE, hasMin |-> TRUE, min |-> <<9, 10>>,
       hasMax |-> FALSE, max |-> I(0)]>>

\* "overlap.min() < min_iou or max_iou < overlap.max()"
IouRejects(m, bx, rect) ==
    LET r == FromInts(rect)
    IN  \/ (m.hasMin /\ \E i \in 1..Len(bx) :
                FracLt(jaccard_numpy(bx[i], r), m.min))
        \/ (m.hasMax /\ \E i \in 1..Len(bx) :
                FracGt(jaccard_numpy(bx[i], r), m.max))

\* mask = m1 * m2: the boxes that overlap the crop
CropMask(bx, rect) ==
    [i \in 1..Len(bx) |->
        /\ RLt(I(rect[1]), bx[i][3]) /\ RLt(I(rect[2]), bx[i][4])
        /\ RLt(bx[i][1], I(rect[3])) /\ RLt(bx[i][2], I(rect[4]))]

\* the kept boxes clipped to the crop and shifted by its left, top corner
ClipToCrop(bx, rect) ==
    [i \in 1..Len(bx) |->
        << RSub(RMax(bx[i][1], I(rect[1])), I(rect[1])),
           RSub(RMax(bx[i][2], I(rect[2])), I(rect[2])),
           RSub(RMin(bx[i][3], I(rect[3])), I(rect[1])),
           RSub(RMin(bx[i][4], I(rect[4])), I(rect[2])) >>]

\* "labels[mask]"
SelectLabels(lb, mask) == MaskSelect(lb, mask)

BoxChoose ==
    /\ status = "ok"
    /\ \/ Enter("RandomSampleCrop") /\ argBoxes' = boxes
       \/ pc = "box_choose" /\ UNCHANGED <<chain, pre, argBoxes>>
    /\ \E k \in 1..Len(box_sample_options) :
         LET m == box_sample_options[k] IN
         /\ mode' = m
         /\ trials' = 0
         /\ last' = Call("RandomSampleCrop", FALSE, << >>, NoRect)
         /\ IF m.isNone
            THEN /\ pc' = "idle"
                 /\ Logged("RandomSampleCrop", FALSE)
                 /\ Return(image, boxes, labels, gid, lid)
            ELSE /\ pc' = "box_trial"
                 /\ UNCHANGED <<image, boxes, labels, gid, lid, status, log>>
    /\ UNCHANGED <<orig, todo>>

BoxTrialFailed ==
    /\ trials' = trials + 1
    /\ pc' = IF trials + 1 = MaxTrials THEN "box_choose" ELSE "box_trial"
    /\ UNCHANGED <<image, boxes, labels, gid, lid, status, last, log>>

BoxTrial ==
    /\ pc = "box_trial" /\ status = "ok"
    /\ \/ /\ \E d \in CropSizes(Height(image), Width(image), BoxScale) :
                BadAspect(d)
          /\ BoxTrialFailed
       \/ \E rect \in CropRects(Height(image), Width(image), BoxScale) :
            IF Len(boxes) = 0 \/ NumCols(boxes) # 4
            THEN \* jaccard_numpy fails on rows that are not x1, y1, x2, y2,
                 \* and overlap.min() on no rows
                 /\ Raise
                 /\ pc' = "idle"
                 /\ UNCHANGED <<trials, last, log>>
            ELSE IF IouRejects(mode, boxes, rect)
                    \/ \A i \in 1..Len(boxes) : ~CropMask(boxes, rect)[i]
            THEN BoxTrialFailed
            ELSE LET mask == CropMask(boxes, rect) IN
                 /\ trials' = trials + 1
                 /\ pc' = "idle"
                 /\ last' = Call("RandomSampleCrop", TRUE, << >>, rect)
                 /\ Logged("RandomSampleCrop", TRUE)
                 /\ Return(CropImage(image, rect),
                           ClipToCrop(MaskSelect(boxes, mask), rect),
                           SelectLabels(labels, mask),
                           MaskSelect(gid, mask), SelectLabels(lid, mask))
    /\ UNCHANGED <<argBoxes, pre, orig, chain, mode, todo>>

(* Inputs                                                                  *)

\* the colours (B, G, R) of the loaded raster
Palette == <<FromInts(<<0, 128, 255>>), FromInts(<<30, 30, 30>>)>>

MaxObjects == 3     \* rows of one geometry array

\* annotated objects: 4-point polygons and their class ids
Polys ==
    << [pts |-> <<10, 10, 50, 10, 50, 50, 10, 50>>, cls |-> 1],
       [pts |-> <<12, 12, 20, 12, 20, 18, 12, 18>>, cls |-> 2],
       [pts |-> <<22, 25, 30, 24, 31, 30, 21, 31>>, cls |-> 3],
       [pts |-> <<40, 2, 58, 4, 57, 9, 41, 8>>, cls |-> 1] >>

\* annotated objects: boxes x1, y1, x2, y2
Boxes4 ==
    << [pts |-> <<10, 10, 50, 50>>, cls |-> 1],
       [pts |-> <<12, 12, 20, 18>>, cls |-> 2],
       [pts |-> <<21, 24, 31, 31>>, cls |-> 3] >>

\* the elements of pool at the indices S, in pool order
RECURSIVE Pick(_, _)
Pick(pool, S) ==
    IF S = {} THEN << >>
    ELSE LET m == CHOOSE x \in S : \A y \in S : x <= y
         IN  <<pool[m]>> \o Pick(pool, S \ {m})

\* the annotation lists of at most MaxObjects objects of a pool
Lists(pool) ==
    {Pick(pool, S) : S \in {T \in SUBSET (1..Len(pool)) :
                                Cardinality(T) <= MaxObjects}}

InitWith(img, objs, transforms) ==
    /\ image = img
    /\ boxes = [i \in 1..Len(objs) |-> FromInts(objs[i].pts)]
    /\ labels = [i \in 1..Len(objs) |-> objs[i].cls]
    /\ argBoxes = boxes
    /\ pre = Triple
    /\ last = Call("none", FALSE, << >>, NoRect)
    /\ status = "ok"
    /\ gid = [i \in 1..Len(objs) |-> i]
    /\ lid = [i \in 1..Len(objs) |-> i]
    /\ orig = Triple
    /\ chain = transforms
    /\ pc = "idle"
    /\ mode = NoneMode
    /\ trials = 0
    /\ todo = << >>
    /\ log = << >>

\* a small raster and its annotations, for the chains
SmallPolys ==
    << [pts |-> <<6, 6, 9, 6, 9, 9, 6, 9>>, cls |-> 1],
       [pts |-> <<7, 5, 10, 6, 9, 10, 6, 9>>, cls |-> 2],
       [pts |-> <<1, 1, 4, 1, 4, 3, 1, 3>>, cls |-> 3] >>

SmallBoxes ==
    << [pts |-> <<5, 5, 10, 10>>, cls |-> 1],
       [pts |-> <<5, 5, 11, 10>>, cls |-> 2],
       [pts |-> <<5, 5, 10, 10>>, cls |-> 3] >>

(* Chains of transforms run by Compose                                     *)

ResizeSizes == {3, 8}

Pipelines ==
    { <<Transform("RandomSampleCropPoly", 0), Transform("Resize", 8)>>,
      <<Transform("Expand", 0), Transform("RandomSampleCrop", 0),
        Transform("RandomMirror", 0)>>,
      <<Transform("Rotate", 0), Transform("RandomSampleCropPoly", 0),
        Transform("Expand", 0)>>,
      <<Transform("RandomMirror", 0), Transform("RandomBrightness", 0),
        Transform("RandomHue", 0), Transform("Resize", 3)>>,
      <<Transform("RandomContrast", 0), Transform("PhotometricDistort", 0)>> }

Init ==
    \E objs \in Lists(SmallPolys) \cup (Lists(SmallBoxes) \ {<< >>}),
       transforms \in Pipelines :
        InitWith(MkImage(10, 12, Palette), objs, transforms)

Next ==
    \/ CropChoose \/ CropTrial
    \/ BoxChoose \/ BoxTrial
    \/ ResizeCall \/ ExpandCall \/ RandomMirrorCall \/ RotateCall
    \/ RandomBrightnessCall \/ RandomContrastCall \/ RandomHueCall
    \/ PDBrightness \/ PDChoose \/ PDStep \/ PDReturn

Spec == Init /\ [][Next]_vars

(* One call of Resize                                                      *)

InitResize ==
    \E objs \in Lists(Polys) \cup (Lists(Boxes4) \ {<< >>}),
       size \in ResizeSizes, img \in {MkImage(50, 60, Palette),
                                      MkImage(10, 12, Palette)} :
        InitWith(img, objs, <<Transform("Resize", size)>>)

SpecResize == InitResize /\ [][ResizeCall]_vars

(* One call of Expand                                                      *)

InitExpand ==
    \/ \E objs \in Lists(Polys) \cup (Lists(Boxes4) \ {<< >>}) :
          InitWith(MkImage(4, 6, Palette), objs, <<Transform("Expand", 0)>>)
    \/ \E objs \in {SubSeq(Polys, 1, 2), SubSeq(Boxes4, 1, 1)} :
          InitWith(MkImage(100, 100, Palette), objs,
                   <<Transform("Expand", 0)>>)

SpecExpand == InitExpand /\ [][ExpandCall]_vars

(* Two calls of RandomMirror                                               *)

InitMirror ==
    \E objs \in Lists(Polys) \cup (Lists(Boxes4) \ {<< >>}),
       img \in {MkImage(50, 60, Palette), MkImage(4, 7, Palette)} :
        InitWith(img, objs, <<Transform("RandomMirror", 0),
                              Transform("RandomMirror", 0)>>)

SpecMirror == InitMirror /\ [][RandomMirrorCall]_vars

(* One call of a photometric transform                                     *)

\* colours of float pixels: B G R in [0, 255], or H in [0, 360], S, V
PhotoColours ==
    { FromInts(<<0, 128, 255>>), FromInts(<<30, 30, 30>>),
      <<I(350), <<1, 2>>, I(200)>>, FromInts(<<360, 1, 255>>),
      FromInts(<<10, 0, 250>>) }

PhotoChains ==
    { <<Transform("RandomBrightness", 0)>>, <<Transform("RandomContrast", 0)>>,
      <<Transform("RandomHue", 0)>>, <<Transform("PhotometricDistort", 0)>> }

InitPhoto ==
    \E c1, c2 \in PhotoColours, transforms \in PhotoChains :
        InitWith(MkImage(1, 2, <<c1, c2>>), SubSeq(Polys, 1, 2), transforms)

NextPhoto ==
    \/ RandomBrightnessCall \/ RandomContrastCall \/ RandomHueCall
    \/ PDBrightness \/ PDChoose \/ PDStep \/ PDReturn

SpecPhoto == InitPhoto /\ [][NextPhoto]_vars

(* One call of RandomSampleCropPoly                                        *)

InitCrop ==
    \E objs \in Lists(Polys) \cup Lists(Boxes4) :
        InitWith(MkImage(50, 60, Palette), objs,
                 <<Transform("RandomSampleCropPoly", 0)>>)

NextCrop == CropChoose \/ CropTrial

SpecCrop == InitCrop /\ [][NextCrop]_vars

CropCalled == last.op = "RandomSampleCropPoly"
CropReturned == CropCalled /\ pc = "idle"
CropSucceeded == CropReturned /\ last.applied

\* C2: RandomSampleCropPoly returns the input image, geometry and labels
\* unchanged when the chosen mode is None, and when the object list is empty
\* whichever mode is chosen; it then neither raises nor samples a crop
\* rectangle (no trial is made for that choice; with no objects the trial
\* loop is never entered).
C2_IdentityOnNoneOrEmpty ==
    /\ (CropReturned /\ (mode.isNone \/ Len(pre.boxes) = 0)) =>
          /\ status = "ok"
          /\ image = pre.image /\ boxes = pre.boxes /\ labels = pre.labels
          /\ argBoxes = pre.boxes
          /\ ~last.applied
          /\ trials = 0
    /\ (CropCalled /\ Len(pre.boxes) = 0) => pc = "idle"

C2_Witness ==
    /\ CropReturned /\ Len(pre.boxes) = 0 /\ ~mode.isNone

\* C3: after a successful crop with rectangle (x1, y1, x2, y2) the returned
\* geometry has every input row, every x is the input x minus x1 and every y
\* the input y minus y1, unclipped, and the caller's array is unmodified.
C3_TranslateAllRows ==
    CropSucceeded =>
        /\ Len(boxes) = Len(pre.boxes)
        /\ \A i \in 1..Len(boxes) :
              /\ Len(boxes[i]) = Len(pre.boxes[i])
              /\ \A j \in 1..Len(boxes[i]) :
                    boxes[i][j] =
                        RSub(pre.boxes[i][j],
                             I(IF j % 2 = 1 THEN last.rect[1] ELSE last.rect[2]))
        /\ argBoxes = pre.boxes

\* a successful crop that leaves a coordinate out of the frame on either side
C3_Witness ==
    /\ CropSucceeded
    /\ \E i \in 1..Len(boxes) : \E j \in 1..Len(boxes[i]) :
          RLt(boxes[i][j], I(0))
    /\ \E i \in 1..Len(boxes) : \E j \in 1..Len(boxes[i]) :
          j % 2 = 1 /\ RLt(I(Width(image)), boxes[i][j])

ExamplePoly == FromInts(<<10, 10, 50, 10, 50, 50, 10, 50>>)
ExampleRect == <<5, 5, 45, 45>>

ExampleCropped(i) ==
    /\ CropSucceeded /\ last.rect = ExampleRect
    /\ i \in 1..Len(pre.boxes) /\ pre.boxes[i] = ExamplePoly

\* C4 as stated: the polygon [10,10,50,10,50,50,10,50] cropped with the
\* rectangle [5,5,45,45] yields [5,5,45,5,45,40,5,40].
C4_ExampleAsStated ==
    \A i \in 1..Len(pre.boxes) :
        ExampleCropped(i) =>
            boxes[i] = FromInts(<<5, 5, 45, 5, 45, 40, 5, 40>>)

\* C4 as amended: the polygon [10,10,50,10,50,50,10,50] cropped with the
\* rectangle [5,5,45,45] yields [5,5,45,5,45,45,5,45].
C4_ExampleAmended ==
    \A i \in 1..Len(pre.boxes) :
        ExampleCropped(i) =>
            boxes[i] = FromInts(<<5, 5, 45, 5, 45, 45, 5, 45>>)

C4_Witness == \E i \in 1..Len(pre.boxes) : ExampleCropped(i)

\* containment ratio of one object: bounding rectangle /\ crop area over the
\* bounding rectangle area, compared with 0.9
Contained(row, rect) ==
    LET xs == {row[j] : j \in {k \in 1..Len(row) : k % 2 = 1}}
        ys == {row[j] : j \in {k \in 1..Len(row) : k % 2 = 0}}
        lo(S) == CHOOSE x \in S : \A y \in S : RLe(x, y)
        hi(S) == CHOOSE x \in S : \A y \in S : RLe(y, x)
        ix == RSub(RMin(hi(xs), I(rect[3])), RMax(lo(xs), I(rect[1])))
        iy == RSub(RMin(hi(ys), I(rect[4])), RMax(lo(ys), I(rect[2])))
        inter == IF RLt(I(0), ix) /\ RLt(I(0), iy) THEN RMul(ix, iy) ELSE I(0)
        whole == RMul(RSub(hi(xs), lo(xs)), RSub(hi(ys), lo(ys)))
    IN  RLt(RMul(<<9, 10>>, whole), inter)

ContainedCount(bx, rect) ==
    Cardinality({i \in 1..Len(bx) : Contained(bx[i], rect)})

\* C10: a crop returned under a policy (count_min, count_max) has at least
\* count_min objects of containment ratio above 0.9 and, when count_max is
\* set, at most count_max.
C10_PolicySatisfied ==
    CropSucceeded =>
        /\ ~mode.isNone
        /\ mode.hasMin => ContainedCount(pre.boxes, last.rect) >= mode.min
        /\ mode.hasMax => ContainedCount(pre.boxes, last.rect) <= mode.max

\* a crop returned although some object is not contained
C10_Witness ==
    /\ CropSucceeded /\ mode.hasMin
    /\ ContainedCount(pre.boxes, last.rect) < Len(pre.boxes)

\* every channel of every pixel lies in [0, 255]
InRange255(img) ==
    \A k \in DOMAIN img.pal : \A c \in 1..3 :
        RLe(I(0), img.pal[k][c]) /\ RLe(img.pal[k][c], I(255))

\* every pixel's hue channel lies in [0, 360]
HueClosed(img) ==
    \A k \in DOMAIN img.pal :
        RLe(I(0), img.pal[k][1]) /\ RLe(img.pal[k][1], I(360))

\* every pixel's hue channel lies in [0, 360)
HueHalfOpen(img) ==
    \A k \in DOMAIN img.pal :
        RLe(I(0), img.pal[k][1]) /\ RLt(img.pal[k][1], I(360))

Returned(op) == last.op = op /\ pc = "idle" /\ status = "ok"

ClipsBrightnessContrast ==
    /\ (Returned("RandomBrightness") /\ InRange255(pre.image))
           => InRange255(image)
    /\ (Returned("RandomContrast") /\ InRange255(pre.image))
           => InRange255(image)

\* C6 as stated: for every draw and every input with pixels in [0, 255] (hue
\* in [0, 360]) RandomBrightness and RandomContrast return pixels in
\* [0, 255] and RandomHue returns hues in [0, 360), never exactly 360.
C6_RangesAsStated ==
    /\ ClipsBrightnessContrast
    /\ (Returned("RandomHue") /\ HueClosed(pre.image)) => HueHalfOpen(image)

\* C6 as amended: RandomBrightness and RandomContrast return pixels in
\* [0, 255], and RandomHue returns hues in the closed range [0, 360].
C6_RangesAmended ==
    /\ ClipsBrightnessContrast
    /\ (Returned("RandomHue") /\ HueClosed(pre.image)) => HueClosed(image)

\* an applied hue draw that lands a pixel exactly on 360
C6_Witness ==
    /\ Returned("RandomHue") /\ last.applied /\ HueClosed(pre.image)
    /\ \E k \in DOMAIN image.pal :
          /\ image.pal[k][1] = I(360)
          /\ pre.image.pal[k][1] # I(360)

OpsOf(l) == [i \in 1..Len(l) |-> l[i].op]

IsPrefix(a, b) == Len(a) <= Len(b) /\ SubSeq(b, 1, Len(a)) = a

ContrastFirst ==
    <<"RandomBrightness", "RandomContrast", "ConvertColor(BGR->HSV)",
      "RandomHue", "ConvertColor(HSV->BGR)", "PhotometricDistort">>

ContrastLast ==
    <<"RandomBrightness", "ConvertColor(BGR->HSV)", "RandomHue",
      "ConvertColor(HSV->BGR)", "RandomContrast", "PhotometricDistort">>

PDRunning == last.op = "PhotometricDistort"

\* C9: PhotometricDistort runs brightness first and then exactly one of
\* [contrast, BGR->HSV, hue, HSV->BGR] and [BGR->HSV, hue, HSV->BGR, contrast]:
\* contrast runs exactly once, hue runs on an HSV image between the two
\* conversions, the image is BGR at the end, geometry and labels are
\* returned untouched.
C9_DistortOrder ==
    PDRunning =>
        /\ IsPrefix(OpsOf(log), ContrastFirst) \/ IsPrefix(OpsOf(log), ContrastLast)
        /\ (pc = "pd_distort" /\ todo # << >> /\ Head(todo) = "RandomHue")
               => image.space = "HSV"
        /\ pc = "idle" =>
              /\ OpsOf(log) \in {ContrastFirst, ContrastLast}
              /\ Cardinality({i \in 1..Len(log) :
                                  log[i].op = "RandomContrast"}) = 1
              /\ image.space = "BGR"
              /\ boxes = pre.boxes /\ labels = pre.labels
              /\ argBoxes = pre.boxes

\* a run of the chain that ends with contrast, with the hue jitter applied
C9_Witness ==
    /\ PDRunning /\ pc = "idle"
    /\ OpsOf(log) = ContrastLast
    /\ \E i \in 1..Len(log) : log[i].op = "RandomHue" /\ log[i].applied

\* C1: every transform, and every chain of them run by Compose, returns
\* geometry and labels of the same number of rows, row i of the labels still
\* the label of the object of row i of the geometry; only RandomSampleCrop
\* may remove rows, and it removes the same rows from both.
C1_RowsStayInStep ==
    (status = "ok" /\ pc = "idle") =>
        /\ Len(boxes) = Len(labels)
        /\ Len(gid) = Len(boxes) /\ Len(lid) = Len(labels)
        /\ gid = lid
        /\ \A i \in 1..Len(labels) : labels[i] = orig.labels[lid[i]]
        /\ \A i \in 1..Len(boxes) : Len(boxes[i]) = NumCols(orig.boxes)
        /\ last.op # "RandomSampleCrop" => Len(boxes) = Len(pre.boxes)
        /\ last.op = "RandomSampleCrop" => Len(boxes) <= Len(pre.boxes)

\* a chain of three transforms, the classical cropper among them with a crop
\* made, has returned two rows
C1_Witness ==
    /\ status = "ok" /\ pc = "idle" /\ chain = << >>
    /\ Len(log) = 3 /\ Len(boxes) = 2
    /\ \E i \in 1..Len(log) : log[i].op = "RandomSampleCrop" /\ log[i].applied

\* C5: one application of RandomMirror maps each box (x1, y1, x2, y2) to
\* (W - x2, y1, W - x1, y2), so that left stays at most right and y is
\* unchanged, and reverses the image columns; two applications return the
\* original image and geometry.
C5_MirrorInvolution ==
    /\ (Returned("RandomMirror") /\ last.applied) =>
          /\ Len(boxes) = Len(pre.boxes)
          /\ \A i \in 1..Len(boxes) :
                /\ boxes[i][1] = RSub(I(Width(pre.image)), pre.boxes[i][3])
                /\ boxes[i][3] = RSub(I(Width(pre.image)), pre.boxes[i][1])
                /\ boxes[i][2] = pre.boxes[i][2]
                /\ boxes[i][4] = pre.boxes[i][4]
                /\ RLe(pre.boxes[i][1], pre.boxes[i][3])
                      => RLe(boxes[i][1], boxes[i][3])
          /\ Height(image) = Height(pre.image)
          /\ Width(image) = Width(pre.image)
          /\ \A r \in 1..Height(image), c \in 1..Width(image) :
                PixelAt(image, r, c) =
                    PixelAt(pre.image, r, Width(image) + 1 - c)
    /\ (Returned("RandomMirror") /\ Len(log) = 2
        /\ log[1].applied /\ log[2].applied) =>
          /\ image = orig.image
          /\ boxes = orig.boxes
          /\ labels = orig.labels

C5_Witness ==
    /\ Returned("RandomMirror") /\ Len(log) = 2
    /\ log[1].applied /\ log[2].applied
    /\ Len(boxes) >= 2
    /\ pre.boxes # boxes

ScaledBy(row, from, sx, sy) ==
    \A j \in 1..Len(row) :
        row[j] = RMul(from[j], IF j % 2 = 1 THEN sx ELSE sy)

\* C7: for geometry of 4-coordinate boxes or 8-coordinate polygons
\* Resize(size) multiplies every x by size / w and every y by size / h,
\* scaling back by (w / size, h / size) gives the original coordinates, the
\* image returned is size x size and the row count is unchanged.
C7_ResizeScales ==
    (last.op = "Resize" /\ NumCols(pre.boxes) \in {4, 8}) =>
        LET size == RInt(last.draws[1])
            w == Width(pre.image)
            h == Height(pre.image)
        IN  /\ status = "ok"
            /\ Len(boxes) = Len(pre.boxes)
            /\ Height(image) = size /\ Width(image) = size
            /\ \A i \in 1..Len(boxes) :
                  /\ Len(boxes[i]) = Len(pre.boxes[i])
                  /\ ScaledBy(boxes[i], pre.boxes[i], Norm(size, w), Norm(size, h))
                  /\ ScaledBy(pre.boxes[i], boxes[i], Norm(w, size), Norm(h, size))

\* what Resize does on 8-coordinate polygons
C7_ResizeScalesPolygons ==
    (last.op = "Resize" /\ NumCols(pre.boxes) = 8) =>
        LET size == RInt(last.draws[1])
            w == Width(pre.image)
            h == Height(pre.image)
        IN  /\ status = "ok"
            /\ Len(boxes) = Len(pre.boxes)
            /\ Height(image) = size /\ Width(image) = size
            /\ \A i \in 1..Len(boxes) :
                  /\ Len(boxes[i]) = Len(pre.boxes[i])
                  /\ ScaledBy(boxes[i], pre.boxes[i], Norm(size, w), Norm(size, h))
                  /\ ScaledBy(pre.boxes[i], boxes[i], Norm(w, size), Norm(h, size))

\* C8: when Expand applies with ratio r and offset (left, top) the canvas is
\* int(height * r) x int(width * r), the image lies inside it at rows
\* int(top)..int(top) + height and columns int(left)..int(left) + width
\* for every draw, every other pixel holds the fill value, and every
\* coordinate pair of boxes and polygons alike is shifted by
\* (+int(left), +int(top)); ratio 1.2 on a 100 x 100 image with offset (5, 3)
\* puts the content at image[3:103, 5:105] and shifts by (+5, +3).
C8_ExpandPlacesImage ==
    /\ last.op = "Expand" => status = "ok"
    /\ (Returned("Expand") /\ last.applied) =>
        LET r == last.draws[1]
            l0 == RInt(last.draws[2])
            t0 == RInt(last.draws[3])
            h == Height(pre.image)
            w == Width(pre.image)
        IN  /\ Height(image) = RInt(RMul(I(h), r))
            /\ Width(image) = RInt(RMul(I(w), r))
            /\ t0 >= 0 /\ t0 + h <= Height(image)
            /\ l0 >= 0 /\ l0 + w <= Width(image)
            /\ \A i \in 1..Height(image), j \in 1..Width(image) :
                  IF t0 < i /\ i <= t0 + h /\ l0 < j /\ j <= l0 + w
                  THEN PixelAt(image, i, j) = PixelAt(pre.image, i - t0, j - l0)
                  ELSE PixelAt(image, i, j) < 0 /\ ColourAt(image, i, j) = Mean
            /\ Len(boxes) = Len(pre.boxes)
            /\ \A i \in 1..Len(boxes) :
                  /\ Len(boxes[i]) = Len(pre.boxes[i])
                  /\ \A j \in 1..Len(boxes[i]) :
                        boxes[i][j] =
                            RAdd(pre.boxes[i][j],
                                 I(IF j % 2 = 1 THEN l0 ELSE t0))
            /\ (h = 100 /\ w = 100 /\ r = <<6, 5>> /\ l0 = 5 /\ t0 = 3) =>
                  /\ Height(image) = 120 /\ Width(image) = 120
                  /\ PixelAt(image, 4, 6) = PixelAt(pre.image, 1, 1)
                  /\ PixelAt(image, 103, 105) = PixelAt(pre.image, 100, 100)
                  /\ PixelAt(image, 3, 6) < 0 /\ PixelAt(image, 104, 105) < 0
                  /\ PixelAt(image, 4, 5) < 0 /\ PixelAt(image, 103, 106) < 0

\* the example: ratio 1.2 on a 100 x 100 image with offset (5, 3), on polygons
C8_Witness ==
    /\ Returned("Expand") /\ last.applied
    /\ Height(pre.image) = 100 /\ Width(pre.image) = 100
    /\ last.draws[1] = <<6, 5>>
    /\ RInt(last.draws[2]) = 5 /\ RInt(last.draws[3]) = 3
    /\ Len(boxes) >= 1 /\ NumCols(boxes) = 8

(* Termination of RandomSampleCropPoly                                     *)

\* "mode = random.choice(self.sample_options)" picking the no-op mode
CropChooseNone == CropChoose /\ mode' = NoneMode

\* the for loop always runs its next pass, and a random choice that is made
\* again and again picks None sooner or later
CropFairness == WF_vars(CropTrial) /\ SF_vars(CropChooseNone)

SpecCropFair == InitCrop /\ [][NextCrop]_vars /\ CropFairness

\* the number of objects no policy of the table can accept: the least
\* minimum count, which the contained count must exceed
LeastMin == 1

TrialsCapped ==
    /\ trials <= MaxTrials
    /\ pc = "trial" => trials < MaxTrials
    /\ pc = "choose" => trials = MaxTrials

\* a pass of the for loop that does not return is counted, and the pass
\* that makes the count MaxTrials, and no other, goes back to the choice
AbandonAfterCap ==
    (pc = "trial" /\ pc' # "idle") =>
        /\ trials' = trials + 1
        /\ mode' = mode
        /\ (pc' = "choose") <=> (trials' = MaxTrials)
        /\ pc' \in {"trial", "choose"}

\* after an abandoned mode a mode is chosen again, with a fresh count
ChooseAgain ==
    pc = "choose" =>
        /\ \E k \in 1..Len(sample_options) : mode' = sample_options[k]
        /\ trials' = 0
        /\ pc' \in {"idle", "trial"}

\* C11: RandomSampleCropPoly makes at most MaxTrials (50) trials for one
\* chosen mode; when all of them fail it goes back to choosing a mode; and
\* with the fair choice of modes every call that has begun returns, whatever
\* the objects are, also when no rectangle can satisfy any policy
C11_BoundedTrialsAndReturn ==
    /\ []TrialsCapped
    /\ [][AbandonAfterCap /\ ChooseAgain]_vars
    /\ (pc # "idle") ~> CropReturned

\* a call on one object, which no policy accepts, has used up MaxTrials
\* trials of a mode and is back at the choice of a mode
C11_Witness ==
    /\ CropCalled /\ pc = "choose" /\ trials = MaxTrials
    /\ ~mode.isNone
    /\ Len(boxes) = LeastMin

====
